---------------------------- MODULE Spec2Model ----------------------------
(***************************************************************************)
(* pynab: the scan orchestrator (start.py, main) and the binary-to-release *)
(* finalization pipeline (pynab/releases.py, process) as one state machine *)
(* over the relational Store.                                              *)
(*                                                                         *)
(* Time is counted in ticks; one tick stands for the finest resolution of  *)
(* a timestamp (one microsecond), DayTicks ticks for one day.              *)
(***************************************************************************)
EXTENDS Integers, Sequences, FiniteSets, TLC

(***************************************************************************)
(* Bounds of the model.                                                    *)
(***************************************************************************)
MaxParts == 2        \* parts per Binary
MaxSegs == 2         \* declared segments per Part
MaxRules == 2        \* rows of the blacklist table
MaxCycles == 2       \* iterations of the orchestrator loop that are explored
MaxPosted == 3       \* latest posted timestamp of a Binary, in ticks
DayTicks == 2        \* ticks per day
MaxMisses == 2       \* rows of the Miss table per group
MaxFiles == 2        \* files listed in a Release
MaxNameLen == 2      \* characters of a name given to clean_release_name

(***************************************************************************)
(* Value domains.                                                          *)
(***************************************************************************)
GroupNames == {"g1", "g2"}
\* the order in which a query returns the groups
GroupOrder == <<"g1", "g2">>
\* A name is a sequence of characters.
Name1 == <<"a", ".", "b">>
Name2 == <<"c", "#", "d">>
Names == {Name1, Name2}
Poster1 == <<"p", "1">>
Poster2 == <<"p", "2">>
\* A Part's subject line is represented by the set of pattern families of
\* pynab.nzbs that regex.search finds in it.
Families == {"rar_part", "rar", "zip", "metadata"}
Subjects == SUBSET Families
DefaultSubject == {"rar_part"}
BinaryIds == 1..3

RECURSIVE SumOver(_, _)
\* sum of f[i] over the set S of indices
SumOver(f, S) ==
    IF S = {} THEN 0
    ELSE LET i == CHOOSE x \in S : TRUE IN f[i] + SumOver(f, S \ {i})

RECURSIVE SeqsUpTo(_, _)
\* all sequences over S of length 1..n
SeqsUpTo(S, n) ==
    IF n = 0 THEN {}
    ELSE SeqsUpTo(S, n - 1) \cup [1..n -> S]

Range(s) == { s[i] : i \in DOMAIN s }


(***************************************************************************)
(* Collaborators outside the two modelled files.                           *)
(***************************************************************************)
\* regex.search(pattern, value): a pattern is represented by the set of
\* values in which a match is found.
RegexSearch(pattern, value) == value \in pattern

\* Binary.size(): the aggregate size derived from the Binary's parts.
BinarySize(binary) == binary.size

\* pynab.nzbs.rar_part_regex / rar_regex / zip_regex / metadata_regex
\* searched in a Part's subject.
MatchesFamily(family, subject) == family \in subject

CAT_PARENT_MISC == 8000
CAT_MISC_OTHER == 8010
CAT_TV_OTHER == 5050
CAT_MOVIES_OTHER == 2020
\* the default of the group_name parameter
NoGroup == ""
\* pynab.categories.determine_category(name, group_name): a deterministic
\* classifier; names without a recognisable pattern fall into misc.
determine_category(name, group_name) ==
    IF "#" \in Range(name) THEN CAT_MISC_OTHER
    ELSE IF "m" \in Range(name) THEN CAT_MOVIES_OTHER
    ELSE CAT_TV_OTHER
\* rows of the Category table
CategoryTable == {CAT_MISC_OTHER, CAT_TV_OTHER, CAT_MOVIES_OTHER}

\* pynab.rars.attempt_parse(file.name): the release name in front of an
\* archive extension, Unparsable (None) for any other file name
Unparsable == << >>
rars_attempt_parse(filename) ==
    IF Len(filename) > 2 /\ SubSeq(filename, Len(filename) - 1, Len(filename)) = <<".", "r">>
    THEN SubSeq(filename, 1, Len(filename) - 2)
    ELSE Unparsable

RECURSIVE attempt_parse(_, _)
\* pynab.nfos.attempt_parse / pynab.sfvs.attempt_parse of a decoded text,
\* which is a sequence of lines: the names found in its lines, in order
\* (from line i on); a line that holds no name has the name Unparsable
attempt_parse(text, i) ==
    IF i > Len(text) THEN << >>
    ELSE (IF text[i].name # Unparsable THEN <<text[i].name>> ELSE << >>)
         \o attempt_parse(text, i + 1)

(***************************************************************************)
(* releases.py: names_from_nfos, names_from_files, names_from_sfvs,        *)
(* discover_name                                                           *)
(***************************************************************************)
PyFalse == <<"False">>
PyNone == <<"None">>
NoCategory == 0

names_from_nfos(release) ==
    IF release.nfo.text # << >> THEN attempt_parse(release.nfo.text, 1) ELSE << >>

RECURSIVE FileNames(_, _)
\* for file in release.files: ... if name: potential_names.append(name)
FileNames(files, i) ==
    IF i > Len(files) THEN << >>
    ELSE LET parsed == rars_attempt_parse(files[i].name)
         IN  (IF parsed # Unparsable THEN <<parsed>> ELSE << >>) \o FileNames(files, i + 1)

names_from_files(release) == FileNames(release.files, 1)

names_from_sfvs(release) ==
    IF release.sfv.text # << >> THEN attempt_parse(release.sfv.text, 1) ELSE << >>

\* (variant: the names of the NFO are looked at before those of the files)
PotentialNamesNfoFirst(release) ==
    <<release.search_name>>
    \o (IF release.nfo.ref THEN names_from_nfos(release) ELSE << >>)
    \o (IF release.files # << >> THEN names_from_files(release) ELSE << >>)
    \o (IF release.sfv.ref THEN names_from_sfvs(release) ELSE << >>)

potential_names(release) ==
    <<release.search_name>>
    \o (IF release.files # << >> THEN names_from_files(release) ELSE << >>)
    \o (IF release.nfo.ref THEN names_from_nfos(release) ELSE << >>)
    \o (IF release.sfv.ref THEN names_from_sfvs(release) ELSE << >>)

\* math.floor(category / 1000) * 1000
Parent(category) == (category \div 1000) * 1000

RECURSIVE DiscoverLoop(_, _, _, _)
\* for name in potential_names: ...   (from position i on);
\* falling out of the loop ends in  return None, None
DiscoverLoop(names, i, old_category, calculated_old_category) ==
    IF i > Len(names) THEN <<PyNone, NoCategory>>
    ELSE LET new_category == determine_category(names[i], NoGroup)
         IN  IF Parent(calculated_old_category) = CAT_PARENT_MISC
             THEN IF Parent(new_category) = CAT_PARENT_MISC
                  THEN DiscoverLoop(names, i + 1, old_category, calculated_old_category)
                  ELSE IF \/ Parent(new_category) = Parent(old_category)
                          \/ Parent(old_category) = CAT_PARENT_MISC
                       THEN <<names[i], new_category>>
                       ELSE DiscoverLoop(names, i + 1, old_category,
                                         calculated_old_category)
             ELSE <<PyFalse, calculated_old_category>>

\* (variant: the loop runs whatever the number of names)
DiscoverNameAlwaysLoops(release) ==
    DiscoverLoop(potential_names(release), 1, release.category_id,
                 determine_category(release.search_name, NoGroup))

discover_name(release) ==
    IF Len(potential_names(release)) > 1
    THEN DiscoverLoop(potential_names(release), 1, release.category_id,
                      determine_category(release.search_name, NoGroup))
    ELSE <<PyNone, NoCategory>>

(***************************************************************************)
(* releases.py: clean_release_name                                         *)
(***************************************************************************)
\* the non-ASCII entries of the list are written by name
chars == <<"#", "@", "$", "%", "^", "sect", "uml", "copy", "Ouml">>

RemoveChar(name, c) == SelectSeq(name, LAMBDA x : x # c)
ReplaceChar(name, c, d) == [i \in DOMAIN name |-> IF name[i] = c THEN d ELSE name[i]]

RECURSIVE StripChars(_, _)
\* for c in chars: name = name.replace(c, '')   (from position i on)
StripChars(name, i) ==
    IF i > Len(chars) THEN name
    ELSE StripChars(RemoveChar(name, chars[i]), i + 1)

\* (variant: the hyphen is replaced by an underscore)
CleanHyphenToUnderscore(n) ==
    ReplaceChar(ReplaceChar(ReplaceChar(StripChars(n, 1), "_", " "), ".", " "), "-", "_")

clean_release_name(name) ==
    ReplaceChar(ReplaceChar(ReplaceChar(StripChars(name, 1), "_", " "), ".", " "), "-", " ")

(***************************************************************************)
(* releases.py, process: the completion query                              *)
(***************************************************************************)
\* parts INNER JOIN segments GROUP BY parts.id: one row per Part that has
\* at least one Segment, with available_segments = count(*)
PartRows(binary) == { i \in DOMAIN binary.parts : binary.parts[i].segments > 0 }

available_segments(binary) ==
    SumOver([i \in DOMAIN binary.parts |-> binary.parts[i].segments], PartRows(binary))

total_segments(binary) ==
    SumOver([i \in DOMAIN binary.parts |-> binary.parts[i].total_segments], PartRows(binary))

\* (sum(available_segments) / sum(total_segments)) * 100 >= min_completion.
\* sum() over count(*) is of type numeric in PostgreSQL, so the division is
\* not truncated; the comparison of the exact quotient is cross-multiplied.
\* (variant: the operands are integers and the division truncates)
CompletionIntegerDivision(available, total, min_completion) ==
    (available \div total) * 100 >= min_completion

CompletionReached(available, total, min_completion) ==
    available * 100 >= min_completion * total

\* (variant: the HAVING clause does not look at total_parts)
HavingIgnoresTotalParts(binary, min_completion) ==
    CompletionReached(available_segments(binary), total_segments(binary), min_completion)

\* HAVING count(*) >= binaries.total_parts AND ...
Having(binary, min_completion) ==
    /\ Cardinality(PartRows(binary)) >= binary.total_parts
    /\ CompletionReached(available_segments(binary), total_segments(binary), min_completion)

\* the rows (id, name, posted) of binary_query
binary_query(store, min_completion) ==
    { [id |-> b.id, name |-> b.name, posted |-> b.posted] :
        b \in { x \in store : PartRows(x) # {} /\ Having(x, min_completion) } }

(***************************************************************************)
(* releases.py, process: the gates                                         *)
(***************************************************************************)
\* db.query(Release).filter(name == ..).filter(posted == ..).first()
\* (variant: the lookup finds no Release)
ReleaseExistsNever(rels, row) == FALSE

ReleaseExists(rels, row) ==
    \E i \in DOMAIN rels : rels[i].name = row.name /\ rels[i].posted = row.posted

\* db.query(Blacklist).filter(Blacklist.status == True).all()
LoadBlacklists(table) == SelectSeq(table, LAMBDA r : r.status)

\* field = 'name' if blacklist.field == 'subject' else blacklist.field
BlacklistField(blacklist) ==
    IF blacklist.field = "subject" THEN "name" ELSE blacklist.field

RuleMatches(blacklist, binary) ==
    /\ RegexSearch(blacklist.group_name, binary.group_name)
    /\ RegexSearch(blacklist.regex, binary[BlacklistField(blacklist)])

RECURSIVE BlacklistLoopNoBreak(_, _, _, _)
\* (variant: the loop has no break, the last matching rule is the one cited)
BlacklistLoopNoBreak(rules, binary, i, acc) ==
    IF i > Len(rules) THEN acc
    ELSE BlacklistLoopNoBreak(rules, binary, i + 1,
            IF RuleMatches(rules[i], binary)
            THEN [blacklisted |-> TRUE, id |-> rules[i].id,
                  evaluated |-> Append(acc.evaluated, rules[i].id)]
            ELSE [acc EXCEPT !.evaluated = Append(@, rules[i].id)])

RECURSIVE BlacklistLoop(_, _, _, _)
\* for blacklist in blacklists: ... break on the first match.
\* acc.evaluated lists the ids of the rules that were evaluated.
BlacklistLoop(rules, binary, i, acc) ==
    IF i > Len(rules) THEN acc
    ELSE IF RuleMatches(rules[i], binary)
         THEN [blacklisted |-> TRUE, id |-> rules[i].id,
               evaluated |-> Append(acc.evaluated, rules[i].id)]
         ELSE BlacklistLoop(rules, binary, i + 1,
                            [acc EXCEPT !.evaluated = Append(@, rules[i].id)])

NoHit == [blacklisted |-> FALSE, id |-> 0, evaluated |-> << >>]

\* check against minimum size for this group
Undersized(binary, min_size) ==
    \E size \in DOMAIN min_size :
        binary.group_name \in min_size[size] /\ BinarySize(binary) < size

rar_count(binary) ==
    Cardinality({ i \in DOMAIN binary.parts :
                    MatchesFamily("rar_part", binary.parts[i].subject) })

rars(binary) ==
    { i \in DOMAIN binary.parts :
        /\ MatchesFamily("rar", binary.parts[i].subject)
        /\ ~MatchesFamily("metadata", binary.parts[i].subject) }

zip_count(binary) ==
    Cardinality({ i \in DOMAIN binary.parts :
                    /\ MatchesFamily("zip", binary.parts[i].subject)
                    /\ ~MatchesFamily("metadata", binary.parts[i].subject) })

\* (variant: len(rars) is counted as well)
ArchiveCountWithRars(binary) ==
    rar_count(binary) + Cardinality(rars(binary)) + zip_count(binary)

\* rar_count + zip_count
ArchiveCount(binary) == rar_count(binary) + zip_count(binary)

\* if rar_count + zip_count < config.postprocess.get('min_archives', 1)
TooFewArchives(binary, min_archives) == ArchiveCount(binary) < min_archives


(***************************************************************************)
(* releases.py, process: one pass of the loop body                         *)
(***************************************************************************)
\* The branch the loop body takes for one row of the query.  nzb is the
\* answer of pynab.nzbs.create (TRUE: a descriptor, FALSE: None).
Branch(row, nzb, rels, store, rules, grouptable, cfg) ==
    IF ReleaseExists(rels, row)
    THEN [outcome |-> "duplicate", hit |-> NoHit]
    ELSE LET binary == CHOOSE b \in store : b.id = row.id
             hit == BlacklistLoop(rules, binary, 1, NoHit)
         IN  IF hit.blacklisted THEN [outcome |-> "blacklisted", hit |-> hit]
             ELSE IF Undersized(binary, cfg.min_size)
                  THEN [outcome |-> "undersized", hit |-> hit]
             ELSE IF TooFewArchives(binary, cfg.min_archives)
                  THEN [outcome |-> "few_archives", hit |-> hit]
             \* db.query(Group).filter(Group.name == binary.group_name).one()
             ELSE IF binary.group_name \notin grouptable
                  THEN [outcome |-> "raised", hit |-> hit]
             \* db.query(Category).filter(Category.id == ...).one()
             ELSE IF determine_category(binary.name, binary.group_name) \notin CategoryTable
                  THEN [outcome |-> "raised", hit |-> hit]
             ELSE IF nzb THEN [outcome |-> "published", hit |-> hit]
             ELSE [outcome |-> "nzb_failed", hit |-> hit]

\* (variant: binary_count += 1 placed after the size and archive gates)
CountsOnlyPublishable(outcome) == outcome \in {"raised", "published", "nzb_failed"}

\* the branches that reach  binary_count += 1
Counts(outcome) == outcome \notin {"duplicate", "blacklisted"}

\* (variant: db.delete(binary) placed after the  if nzb:  block)
DeletesAlsoOnNzbFailure(outcome) ==
    outcome \in {"duplicate", "blacklisted", "undersized", "few_archives",
                 "published", "nzb_failed"}

\* the branches that delete the Binary
Deletes(outcome) ==
    outcome \in {"duplicate", "blacklisted", "undersized", "few_archives", "published"}

\* (variant: the branches that continue do so without a commit)
CommitsOnlyAtLoopEnd(outcome) == outcome \in {"duplicate", "published", "nzb_failed"}

\* the branches that reach a db.commit(): after the delete of the
\* blacklist, size and archive branches, and at the end of the loop body
Commits(outcome) == outcome # "raised"

\* db.query(Binary).filter(Binary.id == ...).delete() / db.delete(binary)
DeleteBinary(store, id) == { x \in store : x.id # id }

\* the Release built from the Binary
BuildRelease(binary) ==
    [name |-> binary.name, posted |-> binary.posted, posted_by |-> binary.posted_by,
     grabs |-> 0, size |-> BinarySize(binary),
     search_name |-> clean_release_name(binary.name),
     group |-> binary.group_name,
     category_id |-> determine_category(binary.name, binary.group_name)]

(***************************************************************************)
(* start.py: update, scan_missing                                          *)
(***************************************************************************)
\* What the future of a task holds, given what the scan function did.
\* "logged": the exception was caught and logged, the task returned None.
\* "exception": the future holds the exception, result() raises it again.
\* (variant: no try/except around the scan)
UpdateWithoutTry(scan) == IF scan = "raises" THEN "exception" ELSE "returned"

update(scan) == IF scan = "raises" THEN "logged" ELSE "returned"

scan_missing(scan) == IF scan = "raises" THEN "logged" ELSE "returned"

\* (variant: the eviction runs whatever the configured age)
EvictionAlways(age) == TRUE

\* start.py: if config.scan.get('dead_binary_age', 3) != 0
EvictionEnabled(age) == age # 0

\* (variant: the comparison is against dead_time plus one tick)
IsDeadOneTickLate(posted, deadtime) == posted <= deadtime + 1

\* (variant: the comparison is strict)
IsDeadStrict(posted, deadtime) == posted < deadtime

\* start.py: Binary.posted <= dead_time
IsDead(posted, deadtime) == posted <= deadtime

(***************************************************************************)
(* State                                                                   *)
(***************************************************************************)
VARIABLES
    groups,          \* Group table: the names that have a row
    active,          \* the names whose row has active = True
    misses,          \* Miss table: per group name, the number of its rows
    binaries,        \* Binary table (with its parts and segment counts)
    upstream,        \* postings of the sources that are not ingested yet
    faulty,          \* the sources whose server fails or stalls
    releases,        \* Release table, in insertion order
    blacklist_table, \* Blacklist table, in the order the query returns it
    config,          \* config.scan and config.postprocess
    now,             \* wall clock, in ticks
    cycle,           \* iteration of the while loop of main
    pc,              \* position of main
    futures,         \* the executor's futures of this iteration
    timed_out,       \* TimeoutError was caught in the scan wait of this iteration
    miss_result,     \* main: the groups of the submitted scan_missing tasks
    completed,       \* process: rows of the query not yet handled
    committed,       \* process: the Binary and Release tables as of the last commit
    blacklists,      \* process: the pre-cached enabled rules
    binary_count,    \* process
    added_count,     \* process
    decision,        \* per Binary id, the branch process took last and its log
    dead_time,       \* main: dead_time of the last eviction
    dead_binaries,   \* main: the rows the last eviction deleted
    release,         \* the Release discover_name is called with
    discovered,      \* what discover_name returned
    raw_name,        \* the name clean_release_name is called with first
    search_name,     \* what clean_release_name returned last
    cleaned          \* the number of calls of clean_release_name

vars == <<groups, active, misses, binaries, upstream, faulty, releases, blacklist_table, config,
          now, cycle, pc, futures, timed_out, miss_result, completed, committed,
          blacklists, binary_count, added_count, decision, dead_time, dead_binaries,
          release, discovered, raw_name, search_name, cleaned>>

store_vars == <<groups, misses, binaries, upstream, faulty, releases, blacklist_table,
               config>>
process_vars == <<completed, committed, blacklists, binary_count, added_count, decision>>
evict_vars == <<dead_time, dead_binaries>>
name_vars == <<release, discovered, raw_name, search_name, cleaned>>
main_vars == <<store_vars, active, process_vars, evict_vars, now, cycle, pc, futures,
              timed_out, miss_result>>

Kinds == {"update", "scan_missing"}
TaskIds == { <<k, g>> : k \in Kinds, g \in GroupNames }
Finished == {"returned", "logged", "exception"}
Submitted(f) == { t \in TaskIds : f[t] # "none" }
Unfinished(f, kind) == { t \in TaskIds : t[1] = kind /\ f[t] \in {"queued", "running", "hung"} }
Busy(f) == { t \in TaskIds : f[t] \in {"running", "hung"} }

\* the executor joined: every submitted task has finished
\* (variant: the executor is left without waiting for its workers)
JoinedNoWait(f) == TRUE

Joined(f) == \A t \in Submitted(f) : f[t] \in Finished

NoMisses == [g \in GroupNames |-> 0]
NotCommitted == [binaries |-> {}, releases |-> << >>]

NoDecision == [outcome |-> "none", name |-> << >>, posted |-> 0, rule |-> 0,
               evaluated |-> << >>]


(***************************************************************************)
(* Initial states.  The Store and the configuration are drawn from         *)
(* families that each vary one part of the input: the shape of a Binary,   *)
(* its subjects, the identity of two Binaries, the blacklist table, the    *)
(* sources and the age of a Binary.                                        *)
(***************************************************************************)
DefaultConfig ==
    [min_completion |-> 100, min_archives |-> 1, min_size |-> << >>,
     retry_missed |-> FALSE, dead_binary_age |-> 1,
     update_threads |-> 2, update_wait |-> 1]

DefaultPart == [subject |-> DefaultSubject, total_segments |-> 1, segments |-> 1]

Bin(id, name, posted, poster, group, size, total_parts, parts) ==
    [id |-> id, name |-> name, posted |-> posted, posted_by |-> poster,
     group_name |-> group, size |-> size, total_parts |-> total_parts,
     parts |-> parts]

\* ingestion stores a Part together with the Segments it was built from,
\* so a Part has between one and total_segments Segments
PartShapes ==
    UNION { { [subject |-> DefaultSubject, total_segments |-> t, segments |-> k] :
                k \in 1..t } : t \in 1..MaxSegs }

SubjectParts == { [subject |-> s, total_segments |-> 1, segments |-> 1] : s \in Subjects }

RuleBodies ==
    [group_name : {{"g1"}, {"g2"}}, field : {"subject", "posted_by"},
     regex : {{Name1, Poster1}, {Name2, Poster2}}, status : BOOLEAN]

\* the primary key of a rule is its position in the table
WithIds(bodies) ==
    [i \in DOMAIN bodies |->
        [id |-> i, group_name |-> bodies[i].group_name, field |-> bodies[i].field,
         regex |-> bodies[i].regex, status |-> bodies[i].status]]

RuleTables == { WithIds(t) : t \in {<< >>} \cup SeqsUpTo(RuleBodies, MaxRules) }

InitControl ==
    /\ now = MaxPosted
    /\ cycle = 1
    /\ pc = "check_active"
    /\ futures = [t \in TaskIds |-> "none"]
    /\ timed_out = FALSE
    /\ miss_result = << >>
    /\ completed = {}
    /\ committed = NotCommitted
    /\ blacklists = << >>
    /\ binary_count = 0
    /\ added_count = 0
    /\ decision = [i \in BinaryIds |-> NoDecision]
    /\ dead_time = 0
    /\ dead_binaries = {}

InitShapes ==
    /\ groups = GroupNames /\ active = {"g1"} /\ misses = NoMisses
    /\ upstream = {} /\ faulty = {}
    /\ releases = << >> /\ blacklist_table = << >>
    /\ \E tp \in 1..MaxParts, ps \in SeqsUpTo(PartShapes, MaxParts) :
          binaries = {Bin(1, Name1, MaxPosted, Poster1, "g1", 1, tp, ps)}
    /\ \E mc \in {50, 100} : config = [DefaultConfig EXCEPT !.min_completion = mc]

InitSubjects ==
    /\ groups = GroupNames /\ active = {"g1"} /\ misses = NoMisses
    /\ upstream = {} /\ faulty = {}
    /\ releases = << >> /\ blacklist_table = << >>
    /\ \E ps \in SeqsUpTo(SubjectParts, MaxParts) :
          binaries = {Bin(1, Name1, MaxPosted, Poster1, "g1", 1, Len(ps), ps)}
    /\ \E ma \in {1, 2} : config = [DefaultConfig EXCEPT !.min_archives = ma]

InitIdentity ==
    /\ active = {"g1"} /\ misses = NoMisses /\ blacklist_table = << >>
    /\ faulty = {}
    \* a Binary keeps its group_name when the Group row is removed
    /\ groups \in {GroupNames, {"g1"}}
    /\ \E n1 \in Names, n2 \in Names, p2 \in {MaxPosted - 1, MaxPosted},
          g2 \in GroupNames :
          binaries = {Bin(1, n1, MaxPosted, Poster1, "g1", 1, 1, <<DefaultPart>>),
                      Bin(2, n2, p2, Poster1, g2, 2, 1, <<DefaultPart>>)}
    \* a repost of a name that is not ingested yet
    /\ upstream \in {{}, {Bin(3, Name1, MaxPosted, Poster2, "g1", 2, 1, <<DefaultPart>>)}}
    /\ releases \in {<< >>,
                     <<BuildRelease(Bin(0, Name1, MaxPosted, Poster1, "g1", 2, 1,
                                        <<DefaultPart>>))>>}
    /\ \E ms \in {<< >>, (2 :> {"g1"})} : config = [DefaultConfig EXCEPT !.min_size = ms]

InitRules ==
    /\ groups = GroupNames /\ active = {"g1"} /\ misses = NoMisses
    /\ upstream = {} /\ faulty = {}
    /\ releases = << >>
    /\ blacklist_table \in RuleTables
    /\ binaries = {Bin(1, Name1, MaxPosted, Poster2, "g1", 1, 1, <<DefaultPart>>)}
    /\ config = DefaultConfig

InitSources ==
    /\ groups = GroupNames
    /\ active \in SUBSET GroupNames
    /\ misses \in [GroupNames -> 0..MaxMisses]
    /\ faulty \in SUBSET GroupNames
    /\ upstream = {}
    /\ releases = << >> /\ blacklist_table = << >>
    /\ binaries = {Bin(1, Name1, MaxPosted, Poster1, "g1", 1, 1, <<DefaultPart>>)}
    /\ \E r \in BOOLEAN : config = [DefaultConfig EXCEPT !.retry_missed = r]

InitAges ==
    /\ groups = GroupNames /\ active = {"g1"} /\ misses = NoMisses
    /\ upstream = {} /\ faulty = {}
    /\ releases = << >> /\ blacklist_table = << >>
    \* Binaries of every age, the second one incomplete
    /\ \E p1 \in 0..MaxPosted, p2 \in 0..MaxPosted, tp \in {1, 2} :
          binaries = {Bin(1, Name1, p1, Poster1, "g1", 1, tp, <<DefaultPart>>),
                      Bin(2, Name2, p2, Poster1, "g1", 1, 2, <<DefaultPart>>)}
    /\ \E age \in {0, 1} : config = [DefaultConfig EXCEPT !.dead_binary_age = age]

\* a Release record as discover_name reads it; nfo and sfv are references
\* to stored texts (ref FALSE: None)
NoText == [ref |-> FALSE, text |-> << >>]
NoRelease ==
    [id |-> 0, search_name |-> << >>, category_id |-> NoCategory, files |-> << >>,
     nfo |-> NoText, sfv |-> NoText]
NotRun == <<<<"NotRun">>, NoCategory>>

\* neither discover_name nor clean_release_name is called
InitIdle ==
    /\ release = NoRelease
    /\ discovered = NotRun
    /\ raw_name = << >>
    /\ search_name = << >>
    /\ cleaned = 0

Init ==
    /\ InitControl
    /\ InitIdle
    /\ \/ InitShapes
       \/ InitSubjects
       \/ InitIdentity
       \/ InitRules
       \/ InitSources
       \/ InitAges


(***************************************************************************)
(* start.py, main                                                          *)
(***************************************************************************)
RECURSIVE Rows(_, _)
\* the group_name column of a table that holds table[g] rows of group g,
\* from the i-th group on
Rows(table, i) ==
    IF i > Len(GroupOrder) THEN << >>
    ELSE [k \in 1..table[GroupOrder[i]] |-> GroupOrder[i]] \o Rows(table, i + 1)

\* (variant: the query has no group_by)
MissGroupsAllRows(table) == Rows(table, 1)

\* db.query(Miss.group_name).group_by(Miss.group_name).all()
miss_groups(table) ==
    Rows([g \in GroupNames |-> IF table[g] > 0 THEN 1 ELSE 0], 1)

\* miss_result = [executor.submit(scan_missing, miss_group) for ...]
SubmitMisses(f, result) ==
    [t \in TaskIds |->
        IF t[1] = "scan_missing" /\ t[2] \in Range(result) THEN "queued" ELSE f[t]]

\* the top of the loop: read the active groups; break when there are none,
\* else open the executor and submit one update task per active group
CheckActive ==
    /\ pc = "check_active"
    /\ IF active \cap groups = {}
       THEN /\ pc' = "stopped"
            /\ UNCHANGED <<futures, timed_out, miss_result>>
       ELSE /\ futures' = [t \in TaskIds |->
                             IF t[1] = "update" /\ t[2] \in active \cap groups
                             THEN "queued" ELSE "none"]
            /\ timed_out' = FALSE
            /\ miss_result' = << >>
            /\ pc' = "scan_wait"
    /\ UNCHANGED <<store_vars, active, process_vars, evict_vars, now, cycle>>
    /\ UNCHANGED name_vars

\* what follows the as_completed loop over the update futures: r.result()
\* re-raises an exception a future holds; else the retry phase when
\* configured, else the end of the with block
AfterScanWait ==
    IF \E t \in TaskIds : t[1] = "update" /\ futures[t] = "exception"
    THEN /\ pc' = "pool_exit_raising"
         /\ UNCHANGED <<futures, miss_result>>
    ELSE IF config.retry_missed
         THEN /\ miss_result' = miss_groups(misses)
              /\ futures' = SubmitMisses(futures, miss_result')
              /\ pc' = "miss_wait"
         ELSE /\ pc' = "pool_exit"
              /\ UNCHANGED <<futures, miss_result>>

\* as_completed(result, timeout=THREAD_TIMEOUT) yielded every future
ScanCompleted ==
    /\ pc = "scan_wait"
    /\ Unfinished(futures, "update") = {}
    /\ AfterScanWait
    /\ UNCHANGED <<store_vars, active, process_vars, evict_vars, now, cycle, timed_out>>
    /\ UNCHANGED name_vars

\* THREAD_TIMEOUT seconds passed with a future still pending:
\* concurrent.futures.TimeoutError is caught and logged
ScanTimeout ==
    /\ pc = "scan_wait"
    /\ Unfinished(futures, "update") # {}
    /\ timed_out' = TRUE
    /\ IF config.retry_missed
       THEN /\ miss_result' = miss_groups(misses)
            /\ futures' = SubmitMisses(futures, miss_result')
            /\ pc' = "miss_wait"
       ELSE /\ pc' = "pool_exit"
            /\ UNCHANGED <<futures, miss_result>>
    /\ UNCHANGED <<store_vars, active, process_vars, evict_vars, now, cycle>>
    /\ UNCHANGED name_vars

\* as_completed(miss_result), no timeout: every retry future is finished
MissCompleted ==
    /\ pc = "miss_wait"
    /\ Unfinished(futures, "scan_missing") = {}
    /\ pc' = IF \E t \in TaskIds : t[1] = "scan_missing" /\ futures[t] = "exception"
             THEN "pool_exit_raising" ELSE "pool_exit"
    /\ UNCHANGED <<store_vars, active, process_vars, evict_vars, now, cycle,
                   futures, timed_out, miss_result>>
    /\ UNCHANGED name_vars

\* the end of  with ThreadPoolExecutor(...) as executor:  __exit__ calls
\* shutdown(wait=True), which joins every worker, so it returns only when
\* every submitted task has finished, the timed-out ones included
PoolExit ==
    /\ pc \in {"pool_exit", "pool_exit_raising"}
    /\ Joined(futures)
    /\ pc' = IF pc = "pool_exit" THEN "binaries_process" ELSE "crashed"
    /\ UNCHANGED <<store_vars, active, process_vars, evict_vars, now, cycle, futures,
                   timed_out, miss_result>>
    /\ UNCHANGED name_vars

\* pynab.binaries.process(): turns the parts the scans have ingested into
\* Binaries: some of the postings that were upstream are in the Store now
BinariesProcess ==
    /\ pc = "binaries_process"
    /\ \E arrived \in SUBSET upstream :
          /\ binaries' = binaries \cup arrived
          /\ upstream' = upstream \ arrived
    /\ pc' = "releases_process"
    /\ UNCHANGED <<groups, misses, faulty, releases, blacklist_table, config, active,
                   process_vars, evict_vars, now, cycle, futures, timed_out, miss_result>>
    /\ UNCHANGED name_vars

(***************************************************************************)
(* The worker threads of the executor                                      *)
(***************************************************************************)
\* a free worker takes the oldest queued task: the update tasks were
\* submitted before the scan_missing tasks
TaskStart(t) ==
    /\ futures[t] = "queued"
    /\ Cardinality(Busy(futures)) < config.update_threads
    /\ t[1] = "scan_missing" => \A u \in TaskIds : u[1] = "update" => futures[u] # "queued"
    /\ futures' = [futures EXCEPT ![t] = "running"]
    /\ UNCHANGED <<store_vars, active, process_vars, evict_vars, now, cycle, pc, timed_out, miss_result>>
    /\ UNCHANGED name_vars

\* pynab.groups.scan / scan_missing_segments returns or raises
TaskEnd(t) ==
    /\ futures[t] = "running"
    /\ \E scan \in IF t[2] \in faulty THEN {"returns", "raises"} ELSE {"returns"} :
          /\ futures' = [futures EXCEPT ![t] =
                            IF t[1] = "update" THEN update(scan) ELSE scan_missing(scan)]
          \* a retry that returned has filled the gaps of its group; a scan
          \* of a failing server that returned has recorded a gap
          /\ misses' = IF scan = "raises" THEN misses
                       ELSE IF t[1] = "scan_missing" THEN [misses EXCEPT ![t[2]] = 0]
                       ELSE IF t[2] \in faulty /\ misses[t[2]] < MaxMisses
                            THEN [misses EXCEPT ![t[2]] = @ + 1]
                       ELSE misses
    /\ UNCHANGED <<groups, binaries, upstream, faulty, releases, blacklist_table, config,
                   active, process_vars, evict_vars, now, cycle, pc, timed_out, miss_result>>
    /\ UNCHANGED name_vars

\* the scan function never returns
TaskHang(t) ==
    /\ futures[t] = "running"
    /\ t[2] \in faulty
    /\ futures' = [futures EXCEPT ![t] = "hung"]
    /\ UNCHANGED <<store_vars, active, process_vars, evict_vars, now, cycle, pc, timed_out, miss_result>>
    /\ UNCHANGED name_vars


(***************************************************************************)
(* releases.py, process                                                    *)
(***************************************************************************)
\* counters reset, enabled rules pre-cached, the query executed and fetched
ProcessStart ==
    /\ pc = "releases_process"
    /\ binary_count' = 0
    /\ added_count' = 0
    /\ blacklists' = LoadBlacklists(blacklist_table)
    /\ completed' = binary_query(binaries, config.min_completion)
    /\ committed' = [binaries |-> binaries, releases |-> releases]
    /\ timed_out' = FALSE
    /\ pc' = "process_loop"
    /\ UNCHANGED <<store_vars, active, decision, evict_vars, now, cycle, futures, miss_result>>
    /\ UNCHANGED name_vars

\* one pass of  for completed_binary in ...fetchall():  with its commit.
\* The order of the rows is that of the query, which is not specified.
\* An exception of .one() leaves process and main: what was not committed
\* is rolled back with the session.
ProcessBinary(row) ==
    /\ pc = "process_loop"
    /\ row \in completed
    /\ \E nzb \in BOOLEAN :
        LET b == Branch(row, nzb, releases, binaries, blacklists, groups, config)
            binary == CHOOSE x \in binaries : x.id = row.id
        IN  /\ decision' = [decision EXCEPT ![row.id] =
                               [outcome |-> b.outcome, name |-> row.name,
                                posted |-> row.posted, rule |-> b.hit.id,
                                evaluated |-> b.hit.evaluated]]
            /\ binary_count' = IF Counts(b.outcome) THEN binary_count + 1 ELSE binary_count
            /\ added_count' = IF b.outcome = "published" THEN added_count + 1 ELSE added_count
            /\ releases' = IF b.outcome = "raised" THEN committed.releases
                           ELSE IF b.outcome = "published"
                                THEN Append(releases, BuildRelease(binary))
                           ELSE releases
            /\ binaries' = IF b.outcome = "raised" THEN committed.binaries
                           ELSE IF Deletes(b.outcome) THEN DeleteBinary(binaries, row.id)
                           ELSE binaries
            /\ committed' = IF Commits(b.outcome)
                            THEN [binaries |-> binaries', releases |-> releases']
                            ELSE committed
            /\ pc' = IF b.outcome = "raised" THEN "crashed" ELSE "process_loop"
    /\ completed' = completed \ {row}
    /\ UNCHANGED <<groups, misses, upstream, faulty, blacklist_table, config, active,
                   blacklists,
                   evict_vars, now, cycle, futures, timed_out, miss_result>>
    /\ UNCHANGED name_vars

\* the loop is over: the session is closed, the counts are logged and
\* process returns
ProcessEnd ==
    /\ pc = "process_loop"
    /\ completed = {}
    /\ committed' = NotCommitted
    /\ pc' = "evict"
    /\ UNCHANGED <<store_vars, active, completed, blacklists, binary_count, added_count,
                   decision, evict_vars, now, cycle, futures, timed_out, miss_result>>
    /\ UNCHANGED name_vars

(***************************************************************************)
(* start.py, main: maintenance and sleep                                   *)
(***************************************************************************)
\* clean up dead binaries
Evict ==
    /\ pc = "evict"
    /\ IF EvictionEnabled(config.dead_binary_age)
       THEN LET dt == now - config.dead_binary_age * DayTicks
            IN  /\ dead_time' = dt
                /\ dead_binaries' = { [id |-> b.id, posted |-> b.posted] :
                                        b \in { x \in binaries : IsDead(x.posted, dt) } }
                /\ binaries' = { b \in binaries : ~IsDead(b.posted, dt) }
       ELSE UNCHANGED <<binaries, dead_time, dead_binaries>>
    /\ pc' = "vacuum"
    /\ UNCHANGED <<groups, misses, upstream, faulty, releases, blacklist_table, config,
                   active,
                   process_vars, now, cycle, futures, timed_out, miss_result>>
    /\ UNCHANGED name_vars

\* VACUUM binaries, parts, segments on an autocommit connection
Vacuum ==
    /\ pc = "vacuum"
    /\ pc' = "sleep"
    /\ UNCHANGED <<store_vars, active, process_vars, evict_vars, now, cycle, futures, timed_out, miss_result>>
    /\ UNCHANGED name_vars

\* time.sleep(update_wait), then the next iteration
Sleep ==
    /\ pc = "sleep"
    /\ cycle < MaxCycles
    /\ now' = now + config.update_wait
    /\ cycle' = cycle + 1
    /\ pc' = "check_active"
    /\ UNCHANGED <<store_vars, active, process_vars, evict_vars, futures, timed_out, miss_result>>
    /\ UNCHANGED name_vars

\* An administrator deactivates a group.  Group.active is read only at the
\* top of the loop, so the change is placed in the sleep before it.
Deactivate(g) ==
    /\ pc = "sleep"
    /\ cycle < MaxCycles
    /\ g \in active
    /\ active' = active \ {g}
    /\ UNCHANGED <<store_vars, process_vars, evict_vars, now, cycle, pc, futures, timed_out, miss_result>>
    /\ UNCHANGED name_vars

Main ==
    \/ CheckActive
    \/ ScanCompleted
    \/ ScanTimeout
    \/ MissCompleted
    \/ PoolExit
    \/ BinariesProcess
    \/ ProcessStart
    \/ \E row \in completed : ProcessBinary(row)
    \/ ProcessEnd
    \/ Evict
    \/ Vacuum
    \/ Sleep

Workers ==
    \/ \E t \in TaskIds : TaskStart(t)
    \/ \E t \in TaskIds : TaskEnd(t)
    \/ \E t \in TaskIds : TaskHang(t)

Next ==
    \/ Main
    \/ Workers
    \/ \E g \in GroupNames : Deactivate(g)

Spec == Init /\ [][Next]_vars

\* The main thread runs whenever it is not blocked; a worker thread takes a
\* queued task when it is free; a call of the scan function that is running
\* ends or is found never to return.  A task that hangs takes no more step.
Fairness ==
    /\ WF_vars(Main)
    /\ \A t \in TaskIds : WF_vars(TaskStart(t))
    /\ \A t \in TaskIds : WF_vars(TaskEnd(t) \/ TaskHang(t))

\* the orchestrator over every choice of active, missed and faulty sources
FairInit == InitControl /\ InitIdle /\ InitSources

FairSpec == FairInit /\ [][Next]_vars /\ Fairness


(***************************************************************************)
(* releases.py: discover_name and clean_release_name called on their own   *)
(***************************************************************************)
\* the first character of a name decides what determine_category finds in
\* it, the second tells where the name comes from
NameMarks == {"t", "m", "#"}
Categories == {CAT_TV_OTHER, CAT_MOVIES_OTHER, CAT_MISC_OTHER}
SearchNames == { <<c, "0">> : c \in NameMarks }
FileRecords ==
    { [name |-> <<"x">>] } \cup { [name |-> <<c, "1", ".", "r">>] : c \in NameMarks }
Texts(k) ==
    { << >>, <<[name |-> Unparsable]>> } \cup { <<[name |-> <<c, k>>]>> : c \in NameMarks }
StoredTexts(k) == { NoText } \cup { [ref |-> TRUE, text |-> t] : t \in Texts(k) }
Alphabet == Range(chars) \cup {"_", ".", "-", " ", "a"}

OrchestratorIdle ==
    /\ groups = GroupNames /\ active = {} /\ misses = NoMisses
    /\ upstream = {} /\ faulty = {} /\ binaries = {}
    /\ releases = << >> /\ blacklist_table = << >>
    /\ config = DefaultConfig

InitRelease ==
    /\ \E sn \in SearchNames, cat \in Categories,
          fs \in {<< >>} \cup SeqsUpTo(FileRecords, MaxFiles),
          nfo \in StoredTexts("2"), sfv \in StoredTexts("3") :
          release = [id |-> 1, search_name |-> sn, category_id |-> cat, files |-> fs,
                     nfo |-> nfo, sfv |-> sfv]
    /\ discovered = NotRun
    /\ raw_name = << >> /\ search_name = << >> /\ cleaned = 0

InitName ==
    /\ release = NoRelease /\ discovered = NotRun
    /\ raw_name \in SeqsUpTo(Alphabet, MaxNameLen)
    /\ search_name = << >> /\ cleaned = 0

NameInit ==
    /\ InitControl
    /\ OrchestratorIdle
    /\ \/ InitRelease
       \/ InitName

\* a post-processing script calls discover_name(release)
DiscoverName ==
    /\ release # NoRelease
    /\ discovered = NotRun
    /\ discovered' = discover_name(release)
    /\ UNCHANGED <<main_vars, release, raw_name, search_name, cleaned>>

\* clean_release_name is called with the name, then with its own result
CleanName ==
    /\ release = NoRelease
    /\ cleaned < 2
    /\ search_name' = clean_release_name(IF cleaned = 0 THEN raw_name ELSE search_name)
    /\ cleaned' = cleaned + 1
    /\ UNCHANGED <<main_vars, release, discovered, raw_name>>

NameNext ==
    \/ DiscoverName
    \/ CleanName

NameSpec == NameInit /\ [][NameNext]_vars

(***************************************************************************)
(* Properties                                                              *)
(***************************************************************************)
\* a step of process that handles the row (one pass of the loop body)
Handled(row) == pc = "process_loop" /\ row \in completed /\ row \notin completed'

BinaryOf(row) == CHOOSE b \in binaries : b.id = row.id

SameKey(a, b) == a.name = b.name /\ a.posted = b.posted

\* C1: no two Releases of the Store share the same (name, posted) pair, and
\* a row whose (name, posted) is already that of a Release has its Binary
\* deleted without a Release being created.
C1_DuplicateInvariant ==
    /\ [](\A i, j \in DOMAIN releases : SameKey(releases[i], releases[j]) => i = j)
    /\ [][\A row \in completed :
            (Handled(row) /\ \E i \in DOMAIN releases : SameKey(releases[i], row))
            => /\ releases' = releases
               /\ \A b \in binaries' : b.id # row.id]_vars

\* C1 witness: of two Binaries with the same name and posted timestamp one
\* was published, the other deleted as a duplicate, and one Release has the key.
C1_Witness ==
    \E i, j \in BinaryIds :
        /\ i # j
        /\ decision[i].outcome = "published"
        /\ decision[j].outcome = "duplicate"
        /\ SameKey(decision[i], decision[j])
        /\ Cardinality({ k \in DOMAIN releases : SameKey(releases[k], decision[i]) }) = 1
        /\ \A b \in binaries : b.id \notin {i, j}

C2_parts_present(b) == Len(b.parts)
C2_segments_present(b) == SumOver([i \in DOMAIN b.parts |-> b.parts[i].segments], DOMAIN b.parts)
C2_segments_declared(b) ==
    SumOver([i \in DOMAIN b.parts |-> b.parts[i].total_segments], DOMAIN b.parts)

\* C2: the query at the start of process selects a Binary of the Store if and
\* only if its parts present reach total_parts and 100 * segments present /
\* segments declared, summed over all its parts, reaches min_completion.
C2_CompletionInvariant ==
    [][(pc = "releases_process" /\ pc' = "process_loop")
        => \A b \in binaries :
            ([id |-> b.id, name |-> b.name, posted |-> b.posted] \in completed')
            <=> /\ C2_parts_present(b) >= b.total_parts
                /\ 100 * C2_segments_present(b)
                      >= config.min_completion * C2_segments_declared(b)]_vars

\* C2 witness: with a threshold of 50 a Binary holding exactly half of its
\* declared segments is selected.
C2_Witness ==
    /\ pc = "process_loop"
    /\ config.min_completion = 50
    /\ \E row \in completed :
          /\ \E b \in binaries : b.id = row.id
          /\ 2 * C2_segments_present(BinaryOf(row)) = C2_segments_declared(BinaryOf(row))

\* C3 (as amended): an undersized Binary is deleted, no Release is created,
\* binary_count grows by one and added_count keeps its value.
C3_SizeGate ==
    [][\A row \in completed :
        (Handled(row) /\ decision'[row.id].outcome = "undersized")
        => /\ \A b \in binaries' : b.id # row.id
           /\ releases' = releases
           /\ binary_count' = binary_count + 1
           /\ added_count' = added_count]_vars

\* C3 as claimed: an undersized Binary leaves binary_count and added_count
\* at the values they had before it was handled.
C3_SizeGateAsClaimed ==
    [][\A row \in completed :
        (Handled(row) /\ decision'[row.id].outcome = "undersized")
        => /\ \A b \in binaries' : b.id # row.id
           /\ releases' = releases
           /\ binary_count' = binary_count
           /\ added_count' = added_count]_vars

\* C3 witness: a Binary of a group with a minimum size was rejected as
\* undersized and counted.
C3_Witness ==
    /\ pc = "process_loop"
    /\ DOMAIN config.min_size # {}
    /\ binary_count >= 1
    /\ \E i \in BinaryIds :
          decision[i].outcome = "undersized" /\ \A b \in binaries : b.id # i

C4_matches(b, family) == { i \in DOMAIN b.parts : family \in b.parts[i].subject }

\* parts counted by the gate: multi-volume archive parts, and compressed
\* archive volumes that are not metadata
C4_counted(b) ==
    Cardinality(C4_matches(b, "rar_part"))
    + Cardinality(C4_matches(b, "zip") \ C4_matches(b, "metadata"))

\* parts of all three families
C4_three_families(b) ==
    C4_counted(b) + Cardinality(C4_matches(b, "rar") \ C4_matches(b, "metadata"))

C4_PastSizeGate(row) ==
    /\ Handled(row)
    /\ decision'[row.id].outcome \notin {"duplicate", "blacklisted", "undersized"}

C4_Discarded(row) == releases' = releases /\ \A b \in binaries' : b.id # row.id

\* C4 (as amended): a Binary that passed the duplicate, blacklist and size
\* checks is discarded if and only if the number of its parts matching the
\* multi-volume archive part pattern plus the number matching the compressed
\* archive pattern and not the metadata pattern is below min_archives; parts
\* matching only the single/first archive volume pattern do not count.
C4_ArchiveGate ==
    [][\A row \in completed :
        C4_PastSizeGate(row)
        => (C4_Discarded(row) <=> C4_counted(BinaryOf(row)) < config.min_archives)]_vars

\* C4 as claimed: the gate counts the matches of all three pattern families.
C4_ArchiveGateAsClaimed ==
    [][\A row \in completed :
        C4_PastSizeGate(row)
        => (C4_Discarded(row) <=> C4_three_families(BinaryOf(row)) < config.min_archives)]_vars

\* C4 witness: a Binary was discarded for too few archives although the
\* configured minimum is 1.
C4_Witness ==
    /\ pc = "process_loop"
    /\ config.min_archives = 1
    /\ \E i \in BinaryIds :
          decision[i].outcome = "few_archives" /\ \A b \in binaries : b.id # i


\* C5: once the scan timeout has elapsed with a task pending, the cycle
\* reaches finalization (unless a retry task, which is awaited without
\* timeout, is itself the one that never returns).
C5_ScanTimeoutProceeds ==
    timed_out ~> (\/ pc = "releases_process"
                  \/ \E g \in GroupNames : futures[<<"scan_missing", g>>] = "hung")

C6_EvictStep == pc = "evict" /\ pc' = "vacuum" /\ config.dead_binary_age # 0
C6_boundary == now - config.dead_binary_age * DayTicks

\* C6 (as amended): with a non-zero dead_binary_age, a Binary whose posted
\* timestamp is exactly now - dead_binary_age is evicted, as is one that is
\* one tick older; a Binary posted later than that is kept.
C6_EvictionBoundary ==
    [][C6_EvictStep
        => \A b \in binaries :
            /\ b.posted = C6_boundary => b \notin binaries'
            /\ b.posted = C6_boundary - 1 => b \notin binaries'
            /\ b.posted > C6_boundary => b \in binaries']_vars

\* C6 as claimed: a Binary posted exactly at now - dead_binary_age is not
\* evicted, one that is one tick older is.
C6_EvictionBoundaryAsClaimed ==
    [][C6_EvictStep
        => \A b \in binaries :
            /\ b.posted = C6_boundary => b \in binaries'
            /\ b.posted = C6_boundary - 1 => b \notin binaries']_vars

\* C6 witness: the eviction has just deleted a Binary posted exactly at the
\* boundary and kept one posted one tick later.
C6_Witness ==
    /\ pc = "vacuum"
    /\ config.dead_binary_age # 0
    /\ \E r \in dead_binaries : r.posted = dead_time
    /\ \E b \in binaries : b.posted = dead_time + 1

\* C7: when the serializer returns nothing for a Binary that passed every
\* gate, the pass deletes no Binary, persists no Release, leaves added_count
\* and goes on with the loop.
C7_SerializationFailure ==
    [][\A row \in completed :
        (Handled(row) /\ decision'[row.id].outcome = "nzb_failed")
        => /\ binaries' = binaries
           /\ releases' = releases
           /\ added_count' = added_count
           /\ pc' = "process_loop"
           /\ completed' = completed \ {row}]_vars

\* C7 witness: a Binary whose serialization failed is still in the Store
\* while the loop goes on with another row.
C7_Witness ==
    /\ pc = "process_loop"
    /\ completed # {}
    /\ \E b \in binaries : decision[b.id].outcome = "nzb_failed"

\* the enabled rules that match the Binary, by position in the table
C8_matching(b) ==
    { i \in DOMAIN blacklist_table :
        /\ blacklist_table[i].status
        /\ b.group_name \in blacklist_table[i].group_name
        /\ (IF blacklist_table[i].field = "subject" THEN b.name
            ELSE b[blacklist_table[i].field]) \in blacklist_table[i].regex }

C8_enabled_upto(n) == { i \in DOMAIN blacklist_table : blacklist_table[i].status /\ i <= n }

C8_increasing(seq) == \A k \in 1..(Len(seq) - 1) : seq[k] < seq[k + 1]

\* C8: the enabled rules are evaluated in table order; a Binary that matches
\* one is deleted citing the first rule it matches, and no later rule is
\* evaluated; a Binary matching no enabled rule is not deleted by the
\* blacklist step and goes on to the size gate.
C8_BlacklistShortCircuit ==
    [][\A row \in completed :
        (Handled(row) /\ decision'[row.id].outcome # "duplicate")
        => LET b == BinaryOf(row)
               M == C8_matching(b)
               d == decision'[row.id]
           IN  /\ C8_increasing(d.evaluated)
               /\ IF M # {}
                  THEN LET first == CHOOSE i \in M : \A j \in M : i <= j
                       IN  /\ d.outcome = "blacklisted"
                           /\ d.rule = blacklist_table[first].id
                           /\ Range(d.evaluated) = C8_enabled_upto(first)
                           /\ b \notin binaries'
                           /\ releases' = releases
                  ELSE /\ d.outcome \in {"undersized", "few_archives", "raised",
                                         "published", "nzb_failed"}
                       /\ Range(d.evaluated) = C8_enabled_upto(Len(blacklist_table))]_vars

\* C8 witness: a Binary that did not match rule 1 was deleted citing rule 2.
C8_Witness ==
    \E i \in BinaryIds :
        /\ decision[i].outcome = "blacklisted"
        /\ decision[i].rule = 2
        /\ decision[i].evaluated = <<1, 2>>
        /\ \A b \in binaries : b.id # i

\* C9: main leaves its loop only when there is no active source.
C9_LoopExitsOnlyWithoutSources ==
    pc \in {"stopped", "crashed"} => active \cap groups = {}

C10_ScanPhases == {"scan_wait", "miss_wait", "pool_exit"}

\* C10: a scan function that raises is caught inside its task: the future
\* ends holding None, main and the sibling tasks are not touched; every
\* active source gets its task at the top of each cycle, one whose scan
\* failed in the cycle before included; the scan phase is left only towards
\* finalization, and a cycle whose scans return or raise reaches it.
C10_FailureIsolation ==
    /\ [][/\ \A t \in TaskIds :
               (futures[t] = "running" /\ futures'[t] \notin {"running", "hung", "returned"})
               => /\ futures'[t] = "logged"
                  /\ pc' = pc
                  /\ \A u \in TaskIds \ {t} : futures'[u] = futures[u]
          /\ (pc = "check_active" /\ active \cap groups # {})
               => \A g \in active \cap groups : futures'[<<"update", g>>] = "queued"
          /\ pc \in C10_ScanPhases => pc' \in C10_ScanPhases \cup {"binaries_process"}]_vars
    /\ (pc \in C10_ScanPhases /\ \E t \in TaskIds : futures[t] = "logged")
          ~> (pc = "releases_process" \/ \E t \in TaskIds : futures[t] = "hung")

\* C10 witness: finalization is reached in a cycle in which the scan of one
\* source raised and the scan of the other returned.
C10_Witness ==
    /\ pc = "releases_process"
    /\ futures[<<"update", "g1">>] = "logged"
    /\ futures[<<"update", "g2">>] = "returned"

\* the phase of the cycle a position of main belongs to; the join of the
\* executor ends the last phase that used it
C11_Phase(p) ==
    CASE p = "check_active" -> "CHECK_ACTIVE"
      [] p = "stopped" -> "STOP"
      [] p = "scan_wait" -> "SCAN"
      [] p = "miss_wait" -> "RETRY_MISSES"
      [] p \in {"pool_exit", "pool_exit_raising"} ->
            IF config.retry_missed THEN "RETRY_MISSES" ELSE "SCAN"
      [] p \in {"binaries_process", "releases_process", "process_loop"} -> "FINALIZE"
      [] p = "evict" -> "EVICT_DEAD"
      [] p = "vacuum" -> "COMPACT"
      [] p = "sleep" -> "SLEEP"
      [] OTHER -> "ABORTED"

C11_Order ==
    { <<"CHECK_ACTIVE", "STOP">>, <<"CHECK_ACTIVE", "SCAN">>,
      <<"RETRY_MISSES", "FINALIZE">>, <<"FINALIZE", "EVICT_DEAD">>,
      <<"EVICT_DEAD", "COMPACT">>, <<"COMPACT", "SLEEP">>, <<"SLEEP", "CHECK_ACTIVE">> }
    \cup (IF config.retry_missed THEN { <<"SCAN", "RETRY_MISSES">> }
                                 ELSE { <<"SCAN", "FINALIZE">> })

\* C11: main goes from one phase only to the phase that follows it in
\* CHECK_ACTIVE, then STOP or SCAN, RETRY_MISSES (if configured), FINALIZE,
\* EVICT_DEAD, COMPACT, SLEEP and back to CHECK_ACTIVE; an iteration that
\* stops has no executor, finalization, eviction or clock step.
C11_CycleOrdering ==
    [][/\ C11_Phase(pc') # C11_Phase(pc) => <<C11_Phase(pc), C11_Phase(pc')>> \in C11_Order
       /\ pc' = "stopped" => UNCHANGED <<store_vars, futures, process_vars, evict_vars, now>>]_vars

\* C11, apart from the iteration that an exception of process ends
C11_OrderingUnlessAborted ==
    [][C11_Phase(pc') \notin {C11_Phase(pc), "ABORTED"}
        => <<C11_Phase(pc), C11_Phase(pc')>> \in C11_Order]_vars

\* the names found in the files of a Release, in the order of the files
C12_file_names(r) ==
    LET parsable == SelectSeq(r.files,
                        LAMBDA f : /\ Len(f.name) > 2
                                   /\ f.name[Len(f.name) - 1] = "."
                                   /\ f.name[Len(f.name)] = "r")
    IN  [i \in DOMAIN parsable |-> SubSeq(parsable[i].name, 1, Len(parsable[i].name) - 2)]

\* the names found in a stored text, in the order of its lines
C12_text_names(t) ==
    LET lines == SelectSeq(t.text, LAMBDA l : l.name # << >>)
    IN  [i \in DOMAIN lines |-> lines[i].name]

\* the candidates in discovery order: files, embedded info, checksum listing
C12_candidates(r) == C12_file_names(r) \o C12_text_names(r.nfo) \o C12_text_names(r.sfv)

C12_misc(category) == category \in CAT_PARENT_MISC..(CAT_PARENT_MISC + 999)

C12_qualifies(name, declared) ==
    LET c == determine_category(name, NoGroup)
    IN  /\ ~C12_misc(c)
        /\ (c \div 1000 = declared \div 1000 \/ C12_misc(declared))

C12_called == discovered = NotRun /\ discovered' # NotRun

\* C12: when the category recomputed from the original search name is in the
\* miscellaneous bucket and some candidate qualifies, discover_name returns
\* the first qualifying candidate in the order files, embedded info,
\* checksum listing, together with that candidate's category.
C12_NamePrecedence ==
    [][C12_called
        => LET cands == C12_candidates(release)
               Q == { i \in DOMAIN cands : C12_qualifies(cands[i], release.category_id) }
           IN  (C12_misc(determine_category(release.search_name, NoGroup)) /\ Q # {})
               => LET first == CHOOSE i \in Q : \A j \in Q : i <= j
                  IN  discovered' = <<cands[first],
                                      determine_category(cands[first], NoGroup)>>]_vars

\* C12 witness: a file and the embedded info both hold a qualifying name and
\* the name of the file was returned.
C12_Witness ==
    /\ release.search_name = <<"#", "0">>
    /\ release.category_id = CAT_TV_OTHER
    /\ release.files = <<[name |-> <<"x">>], [name |-> <<"t", "1", ".", "r">>]>>
    /\ release.nfo = [ref |-> TRUE, text |-> <<[name |-> <<"t", "2">>]>>]
    /\ discovered = <<<<"t", "1">>, CAT_TV_OTHER>>

C13_stripped == {"#", "@", "$", "%", "^", "sect", "uml", "copy", "Ouml"}
C13_forbidden == C13_stripped \cup {"_", ".", "-"}
C13_called == cleaned' = cleaned + 1

\* C13: clean_release_name applied to its own result returns that result,
\* and no result of clean_release_name holds a stripped punctuation
\* character, an underscore, a dot or a hyphen.
C13_CleanIdempotent ==
    [][C13_called
        => /\ Range(search_name') \cap C13_forbidden = {}
           /\ cleaned >= 1 => search_name' = search_name]_vars

\* C13 witness: a name with a stripped character and a dot was cleaned
\* twice, to a single blank.
C13_Witness ==
    /\ cleaned = 2
    /\ raw_name = <<"#", ".">>
    /\ search_name = <<" ">>

\* C18: with more than one candidate and a recomputed category of the
\* original search name outside the miscellaneous bucket, discover_name
\* returns (False, recomputed category) whatever the other candidates are;
\* with the original search name as the only candidate it returns
\* (None, None) whatever its category.
C18_TrustedOriginal ==
    [][C12_called
        => LET calc == determine_category(release.search_name, NoGroup)
               n == 1 + Len(C12_candidates(release))
           IN  /\ (n > 1 /\ ~C12_misc(calc)) => discovered' = <<PyFalse, calc>>
               /\ n = 1 => discovered' = <<PyNone, NoCategory>>]_vars

\* C18 witness: the original name classifies as TV, the Release is declared
\* a movie and a file holds a movie name: the original name was trusted.
C18_Witness ==
    /\ release.search_name = <<"t", "0">>
    /\ release.category_id = CAT_MOVIES_OTHER
    /\ release.files = <<[name |-> <<"m", "1", ".", "r">>]>>
    /\ discovered = <<PyFalse, CAT_TV_OTHER>>

C14_terminal == {"duplicate", "blacklisted", "undersized", "few_archives", "published"}

\* C14: with a dead-entry age of 0 the eviction step deletes no Binary, and
\* a Binary leaves the Store only in the pass of process that handles it
\* and decides to delete it.
C14_EvictionDisabled ==
    [][config.dead_binary_age = 0
        => /\ pc = "evict" => binaries' = binaries
           /\ \A b \in binaries :
                b \notin binaries'
                => \E row \in completed :
                      /\ Handled(row)
                      /\ row.id = b.id
                      /\ decision'[b.id].outcome \in C14_terminal]_vars

\* C14 witness: with age 0 the eviction step has run, the oldest possible
\* Binary is still in the Store and the other Binary left it by publication.
C14_Witness ==
    /\ pc = "vacuum"
    /\ config.dead_binary_age = 0
    /\ \E b \in binaries : b.posted = 0 /\ decision[b.id].outcome = "none"
    /\ \E i \in BinaryIds : decision[i].outcome = "published" /\ \A b \in binaries : b.id # i

C15_failed(b) == decision[b.id].outcome = "nzb_failed"
C15_row(b) == [id |-> b.id, name |-> b.name, posted |-> b.posted]
C15_reselected == pc = "releases_process" /\ pc' = "process_loop"

\* C15 (as amended): a Binary abandoned because serialization failed stays
\* in the Store until the pass of a later run that handles it again, unless
\* the eviction step finds it dead (age not 0 and posted <= now - age); the
\* query of every later run selects it as long as it is in the Store.
C15_FailedStaysCandidate ==
    [][\A b \in binaries :
        C15_failed(b)
        => /\ b \notin binaries'
                => \/ Handled(C15_row(b))
                   \/ /\ pc = "evict"
                      /\ config.dead_binary_age # 0
                      /\ b.posted <= now - config.dead_binary_age * DayTicks
           /\ C15_reselected => C15_row(b) \in completed']_vars

\* C15 as claimed: no step other than a later pass of process removes the
\* abandoned Binary, and the next run selects it.
C15_FailedStaysCandidateAsClaimed ==
    [][\A b \in binaries :
        C15_failed(b)
        => /\ b \notin binaries' => Handled(C15_row(b))
           /\ C15_reselected => C15_row(b) \in completed']_vars

\* C15 witness: in the second cycle the query has selected a Binary whose
\* serialization failed in the first.
C15_Witness ==
    /\ cycle = 2
    /\ pc = "process_loop"
    /\ binary_count = 0
    /\ \E b \in binaries : C15_failed(b) /\ C15_row(b) \in completed

C16_terminal == {"duplicate", "blacklisted", "undersized", "few_archives", "published"}
C16_has_release(key) == \E i \in DOMAIN releases : SameKey(releases[i], key)

\* C16: the pass that takes a terminal decision ends with the Store
\* committed: the Binary deleted and, when published, its Release added;
\* when a later pass of the run fails with an exception the Store keeps
\* all of that, the failing Binary is still in it and has no Release of
\* its own making; no Binary is deleted without a terminal decision.
C16_CommitIsolation ==
    [][pc = "process_loop"
        => /\ \A row \in completed :
                (Handled(row) /\ decision'[row.id].outcome \in C16_terminal)
                => /\ committed' = [binaries |-> binaries', releases |-> releases']
                   /\ binaries' = binaries \ {BinaryOf(row)}
                   /\ IF decision'[row.id].outcome = "published"
                      THEN /\ Len(releases') = Len(releases) + 1
                           /\ SubSeq(releases', 1, Len(releases)) = releases
                           /\ SameKey(releases'[Len(releases')], row)
                      ELSE releases' = releases
           /\ \A row \in completed :
                (Handled(row) /\ pc' = "crashed")
                => /\ binaries' = binaries
                   /\ releases' = releases
                   /\ \E b \in binaries' : b.id = row.id
                   /\ \A i \in BinaryIds :
                        decision[i].outcome \in C16_terminal
                        => \A b \in binaries' : b.id # i
           /\ \A b \in binaries :
                b \notin binaries' => decision'[b.id].outcome \in C16_terminal]_vars

\* C16 witness: the run was ended by an exception for one Binary after
\* another Binary had been published; the Release of the first is in the
\* Store, its Binary is not, and the failing Binary is untouched.
C16_Witness ==
    /\ pc = "crashed"
    /\ \E i, j \in BinaryIds :
          /\ decision[i].outcome = "published"
          /\ C16_has_release(decision[i])
          /\ \A b \in binaries : b.id # i
          /\ decision[j].outcome = "raised"
          /\ \E b \in binaries : b.id = j /\ ~C16_has_release(b)

C17_retry(g) == <<"scan_missing", g>>
C17_with_misses == { g \in GroupNames : misses[g] > 0 }

\* C17: retry tasks exist only when retry is configured; they are submitted
\* in the step that ends the primary scan wait (every scan task done, or
\* the timeout elapsed), one task for each distinct source that has rows in
\* the Miss table; the wait for them ends only when all of them have
\* returned or failed, and only then does finalization start.
C17_MissRetryPhase ==
    [][/\ ~config.retry_missed => \A g \in GroupNames : futures'[C17_retry(g)] = "none"
       /\ \A g \in GroupNames :
            (futures[C17_retry(g)] = "none" /\ futures'[C17_retry(g)] # "none")
            => /\ config.retry_missed
               /\ pc = "scan_wait" /\ pc' = "miss_wait"
               /\ Unfinished(futures, "update") = {} \/ timed_out'
               /\ futures'[C17_retry(g)] = "queued"
       /\ (pc = "scan_wait" /\ pc' = "miss_wait")
            => /\ Range(miss_result') = C17_with_misses
               /\ Len(miss_result') = Cardinality(C17_with_misses)
               /\ \A g \in GroupNames :
                    futures'[C17_retry(g)] = "queued" <=> g \in C17_with_misses
       /\ (pc = "miss_wait" /\ pc' # pc)
            => \A g \in Range(miss_result) : futures[C17_retry(g)] \in {"returned", "logged"}
       /\ (pc # "binaries_process" /\ pc' = "binaries_process")
            => \A g \in GroupNames :
                 futures[C17_retry(g)] \in {"none", "returned", "logged"}]_vars

\* C17 witness: finalization is reached after a scan wait that timed out
\* and a retry phase with one task per source, of which one failed on a
\* source that has two recorded misses and the other returned.
C17_Witness ==
    /\ pc = "releases_process"
    /\ config.retry_missed
    /\ timed_out
    /\ miss_result = <<"g1", "g2">>
    /\ misses["g1"] = 2
    /\ futures[C17_retry("g1")] = "logged"
    /\ futures[C17_retry("g2")] = "returned"

C19_incomplete(b) ==
    \/ C2_parts_present(b) < b.total_parts
    \/ 100 * C2_segments_present(b) < config.min_completion * C2_segments_declared(b)

C19_running == pc \in {"releases_process", "process_loop"}

\* C19: the query of process selects no incomplete Binary; a pass of the
\* run deletes only the Binary of a row the query selected and changes no
\* other Binary, so every Binary that was incomplete at the start is in the
\* Store unchanged, with its parts, at the end; the Releases that exist are
\* kept as they are, new ones are appended.
C19_ProcessFrame ==
    [][C19_running
        => /\ pc = "releases_process"
                => /\ binaries' = binaries
                   /\ \A b \in binaries : C19_incomplete(b) => C15_row(b) \notin completed'
           /\ pc = "process_loop"
                => /\ completed' \subseteq completed
                   /\ binaries' \subseteq binaries
                   /\ \A b \in binaries : b \notin binaries' => C15_row(b) \in completed
                   /\ \A b \in binaries : C19_incomplete(b) => b \in binaries'
           /\ Len(releases') >= Len(releases)
           /\ SubSeq(releases', 1, Len(releases)) = releases]_vars

\* C19 witness: a run has ended in which one Binary was published while an
\* incomplete Binary stayed in the Store with the part it has.
C19_Witness ==
    /\ pc = "evict"
    /\ added_count = 1
    /\ Len(releases) = 1
    /\ \E b \in binaries :
          /\ Len(b.parts) < b.total_parts
          /\ decision[b.id].outcome = "none"

C20_finalizing == pc \in {"binaries_process", "releases_process", "process_loop"}
C20_executing(t) == futures[t] \in {"queued", "running", "hung"}

\* C20: while the finalization of an iteration runs, no scan task and no
\* retry task submitted in that iteration is queued or executing, the
\* tasks that were pending when the scan timeout elapsed included.
C20_NoScanFinalizeOverlap ==
    C20_finalizing => \A t \in TaskIds : ~C20_executing(t)

\* C20 witness: finalization starts in an iteration whose scan wait timed
\* out; the task that was pending then has finished.
C20_Witness ==
    /\ pc = "releases_process"
    /\ timed_out
    /\ Submitted(futures) # {}
    /\ \A t \in Submitted(futures) : futures[t] \in {"returned", "logged"}

=============================================================================
